---- MODULE Spec2Model ----
(***************************************************************************)
(* Model of the SeaState python driver                                     *)
(* (modules/seastate/py_seastate_1/py_seastate_driver.py): the             *)
(* construction of the time sequence in SeaStateDriver.__init__ and the    *)
(* control flow of SeaStateDriver.run_simulation, one action per call the  *)
(* driver makes on the engine wrapper (sslib) and on its two output sinks. *)
(*                                                                         *)
(* Times are exact rationals.  A configuration value is an integer number  *)
(* of ticks of 1/8 s (30.0 s = 240, 48.0 s = 384, 1.375 s = 11); a         *)
(* timestamp of the sequence is a fraction <<numerator, denominator>> of   *)
(* ticks.  Floating-point rounding is not modelled.                        *)
(*                                                                         *)
(* The engine wrapper itself (pyOpenFAST.seastate) is an external library: *)
(* every call on it either returns or raises, chosen nondeterministically. *)
(* The one thing the driver's source states about it is that a failing     *)
(* seastate_init or seastate_calcOutput calls seastate_end by itself       *)
(* (comment at lines 320-322); that is modelled as an "implicit_end"       *)
(* entry of the call log.                                                  *)
(*                                                                         *)
(* Three specifications: Spec, one SeaStateDriver run; SpecPair, two       *)
(* SeaStateDriver instances whose engine calls interleave; SpecTank, the   *)
(* wave-tank driver script                                                 *)
(* (glue-codes/other/py_wavetank_test1/py_wavetank_driver.py).             *)
(***************************************************************************)
EXTENDS Integers, Sequences, FiniteSets

\* ---------------------------------------------------------------- bounds

\* Largest t_final - t_start (ticks) of the enumerated configurations.
MaxSpan == 4
\* Largest t_start - t_final (ticks) of the enumerated invalid configurations.
MaxNegSpan == 2
\* Largest dt (ticks) of the enumerated configurations.
MaxDt == 3
\* Largest number of rows of the points file.
MaxPoints == 3

\* ------------------------------------------------- SeaStateConfig defaults

DefaultTStart == 240
DefaultTFinal == 384
DefaultDt == 11

DefaultConfig == [t_start |-> DefaultTStart, t_final |-> DefaultTFinal, dt |-> DefaultDt]

\* The configurations a caller may hand to SeaStateDriver: the defaults and
\* small ones, among them t_final < t_start (the class validates nothing).
Configs ==
    {DefaultConfig} \cup
    { [t_start |-> s, t_final |-> s + d, dt |-> h] :
        s \in {0, DefaultTStart}, d \in (0 - MaxNegSpan)..MaxSpan, h \in 1..MaxDt }

\* --------------------------------------------------------------- fractions

FracEq(a, b) == a[1] * b[2] = b[1] * a[2]
FracLe(a, b) == a[1] * b[2] <= b[1] * a[2]
FracLt(a, b) == a[1] * b[2] < b[1] * a[2]
FracSub(a, b) == <<a[1] * b[2] - b[1] * a[2], a[2] * b[2]>>
Ticks(n) == <<n, 1>>

\* ------------------------------------------------------- the time sequence

\* Python's int() of the quotient a / b, b > 0: truncation toward zero.
PyIntQuotient(a, b) == IF a >= 0 THEN a \div b ELSE 0 - ((0 - a) \div b)

\* The number of samples without the + 1.
NumStepsOffByOne(c) == PyIntQuotient(c.t_final - c.t_start, c.dt)

\* The third argument of np.linspace.
NumSteps(c) == PyIntQuotient(c.t_final - c.t_start, c.dt) + 1

\* np.linspace(start, stop, num), endpoint included: num evenly spaced
\* samples, start + k * (stop - start) / (num - 1), the last one set to stop;
\* a single sample is start.
Linspace(start, stop, num) ==
    [k \in 1..num |->
        IF num = 1 THEN Ticks(start)
        ELSE IF k = num THEN Ticks(stop)
        ELSE <<start * (num - 1) + (k - 1) * (stop - start), num - 1>>]

\* ------------------------------------------------------------------- state

VARIABLES
    config,     \* the SeaStateConfig handed to the driver
    npoints,    \* rows of the points file (results_array.shape[0])
    time,       \* self.time
    pc,         \* position of the driver
    i,          \* index of the time loop
    j,          \* index of the points loop
    outcome,    \* "running", "returned", "raised" or "sys_exit"
    err,        \* the exception propagating ("none": none)
    origin,     \* the first call that raised, and its step
    engine,     \* lifecycle state of the engine behind sslib
    log,        \* every call made on sslib and on results_output, in order
    results,    \* the per-point results sink (results_output)
    chans,      \* all_output_channel_values
    outFile,    \* the channel-series sink (out_file)
    ss_pointer, \* config.ss_pointer.value
    waveField   \* the engine's WaveField reference

\* Two SeaStateDriver instances run side by side (specification SpecPair).
VARIABLES
    drivers     \* per driver: its position, its engine's WaveField reference,
                \* the handle its get returned, the handle it passed to set

\* The wave-tank driver script (specification SpecTank).
VARIABLES
    tank_pc,         \* position of the script
    motion_len,      \* n_timesteps_max = len(floater_motions["x"])
    n_timesteps,     \* n_timesteps
    tank_i,          \* index of the time loop
    debug_outputs,   \* wtlib.debug_outputs
    tank_engine,     \* lifecycle state of the engine behind wtlib
    tank_calls,      \* every calc_step call, with its arguments
    debug_file,      \* debug_output_file
    tank_ends,       \* number of wtlib.end() calls
    tank_outcome     \* "running", "returned", "raised" or "sys_exit"

\* The state of one SeaStateDriver run, but for the class attribute
\* SeaStateConfig.ss_pointer.
driverVars == <<config, npoints, time, pc, i, j, outcome, err, origin, engine,
                log, results, chans, outFile, waveField>>

tankVars == <<tank_pc, motion_len, n_timesteps, tank_i, debug_outputs,
              tank_engine, tank_calls, debug_file, tank_ends, tank_outcome>>

\* What a SeaStateDriver run leaves alone.
others == <<drivers, tankVars>>

vars == <<config, npoints, time, pc, i, j, outcome, err, origin, engine, log,
          results, chans, outFile, ss_pointer, waveField, drivers, tankVars>>

\* No pair of drivers is running.
PairIdle == drivers = <<>>

\* The wave-tank script is not running.
TankIdle ==
    /\ tank_pc = "idle"
    /\ motion_len = 0
    /\ n_timesteps = 0
    /\ tank_i = 0
    /\ debug_outputs = FALSE
    /\ tank_engine = "Unloaded"
    /\ tank_calls = <<>>
    /\ debug_file = [opened |-> FALSE, rows |-> <<>>, ends |-> 0]
    /\ tank_ends = 0
    /\ tank_outcome = "running"

NoOrigin == [op |-> "none", step |-> 0 - 1]

ZeroRow == [t |-> Ticks(0), step |-> 0 - 1]

Init ==
    /\ config \in Configs
    /\ npoints \in 0..MaxPoints
    /\ time = <<>>
    /\ pc = "construct"
    /\ i = 0
    /\ j = 0
    /\ outcome = "running"
    /\ err = "none"
    /\ origin = NoOrigin
    /\ engine = "Uninitialized"
    /\ log = <<>>
    /\ results = [opened |-> FALSE, rows |-> <<>>, ends |-> 0]
    /\ chans = <<>>
    /\ outFile = [writes |-> 0, rows |-> <<>>, ends |-> 0]
    /\ ss_pointer = "null"
    /\ waveField = "wavefield"
    /\ PairIdle
    /\ TankIdle

\* ------------------------------------------------------------ bookkeeping

\* One call on sslib or results_output: its name, whether it returned, and
\* the loop indices it was made at.
Call(op, ok) == [op |-> op, ok |-> ok, step |-> i, point |-> j]

\* The engine finalizing itself inside a failed call.
ImplicitEnd == [op |-> "implicit_end", ok |-> TRUE, step |-> i, point |-> j]

Logged(entries) == log' = log \o entries

\* sys.exit(1) in an except clause.
SysExit(op) ==
    /\ outcome' = "sys_exit"
    /\ err' = "SystemExit"
    /\ origin' = [op |-> op, step |-> 0 - 1]
    /\ pc' = "done"

\* A failure inside the time loop caught and the step tried again.
RaiseInLoopRetry(op) ==
    /\ err' = err
    /\ origin' = origin
    /\ pc' = "step"

\* A bare raise inside the try block of the time loop: on to the finally
\* block with the exception pending.
RaiseInLoop(op) ==
    /\ err' = op
    /\ origin' = [op |-> op, step |-> i]
    /\ pc' = "finally"

\* ---------------------------------------------------- SeaStateDriver.__init__

\* self.time = np.linspace(t_start, t_final, int((t_final - t_start) / dt) + 1);
\* np.linspace raises ValueError for a negative number of samples.
Construct ==
    /\ pc = "construct"
    /\ IF NumSteps(config) < 0
         THEN /\ outcome' = "raised"
              /\ err' = "ValueError"
              /\ origin' = [op |-> "linspace", step |-> 0 - 1]
              /\ pc' = "done"
              /\ time' = time
         ELSE /\ time' = Linspace(config.t_start, config.t_final, NumSteps(config))
              /\ pc' = "load_library"
              /\ UNCHANGED <<outcome, err, origin>>
    /\ UNCHANGED <<config, npoints, i, j, engine, log, results, chans, outFile,
                   ss_pointer, waveField>>
    /\ UNCHANGED others

\* _initialize_library: seastate.SeaStateLib(...) loads the shared library.
LoadLibrary ==
    /\ pc = "load_library"
    /\ \/ /\ pc' = "read_points"
          /\ UNCHANGED <<outcome, err, origin>>
       \/ SysExit("SeaStateLib")
    /\ UNCHANGED <<config, npoints, time, i, j, engine, log, results, chans,
                   outFile, ss_pointer, waveField>>
    /\ UNCHANGED others

\* ------------------------------------------------ SeaStateDriver.run_simulation

\* np.loadtxt(points_file).  The except clause formats self.points_file,
\* an attribute the driver does not have (the name lives in self.config), so
\* the clause itself raises AttributeError before it reaches sys.exit(1).
ReadPoints ==
    /\ pc = "read_points"
    /\ \/ /\ pc' = "preinit"
          /\ UNCHANGED <<outcome, err, origin>>
       \/ /\ outcome' = "raised"
          /\ err' = "AttributeError"
          /\ origin' = [op |-> "loadtxt", step |-> 0 - 1]
          /\ pc' = "done"
    /\ UNCHANGED <<config, npoints, time, i, j, engine, log, results, chans,
                   outFile, ss_pointer, waveField>>
    /\ UNCHANGED others

SeaStatePreInit ==
    /\ pc = "preinit"
    /\ \/ /\ Logged(<<Call("seastate_preinit", TRUE)>>)
          /\ engine' = "PreInitialized"
          /\ pc' = "init"
          /\ UNCHANGED <<outcome, err, origin>>
       \/ /\ Logged(<<Call("seastate_preinit", FALSE)>>)
          /\ engine' = engine
          /\ SysExit("seastate_preinit")
    /\ UNCHANGED <<config, npoints, time, i, j, results, chans, outFile,
                   ss_pointer, waveField>>
    /\ UNCHANGED others

\* seastate_init with its failure swallowed: the run goes on.
SeaStateInitSwallowed ==
    /\ pc = "init"
    /\ \/ /\ Logged(<<Call("seastate_init", TRUE)>>)
          /\ engine' = "Initialized"
       \/ /\ Logged(<<Call("seastate_init", FALSE), ImplicitEnd>>)
          /\ engine' = "Finalized"
    /\ pc' = "setup"
    /\ UNCHANGED <<config, npoints, time, i, j, outcome, err, origin, results,
                   chans, outFile, ss_pointer, waveField>>
    /\ UNCHANGED others

\* A failing seastate_init ends the engine by itself.
SeaStateInit ==
    /\ pc = "init"
    /\ \/ /\ Logged(<<Call("seastate_init", TRUE)>>)
          /\ engine' = "Initialized"
          /\ pc' = "setup"
          /\ UNCHANGED <<outcome, err, origin>>
       \/ /\ Logged(<<Call("seastate_init", FALSE), ImplicitEnd>>)
          /\ engine' = "Finalized"
          /\ SysExit("seastate_init")
    /\ UNCHANGED <<config, npoints, time, i, j, results, chans, outFile,
                   ss_pointer, waveField>>
    /\ UNCHANGED others

\* The output arrays (len(time) rows of zeros) and the results file.
Setup ==
    /\ pc = "setup"
    /\ chans' = [k \in 1..Len(time) |-> ZeroRow]
    /\ results' = [results EXCEPT !.opened = TRUE]
    /\ pc' = "get_pointer"
    /\ UNCHANGED <<config, npoints, time, i, j, outcome, err, origin, engine,
                   log, outFile, ss_pointer, waveField>>
    /\ UNCHANGED others

\* seastate_getWaveFieldPointer that leaves config.ss_pointer as it was.
GetWaveFieldPointerNoWrite ==
    /\ pc = "get_pointer"
    /\ \/ /\ Logged(<<Call("seastate_getWaveFieldPointer", TRUE)>>)
          /\ pc' = "set_pointer"
          /\ UNCHANGED <<outcome, err, origin>>
       \/ /\ Logged(<<Call("seastate_getWaveFieldPointer", FALSE)>>)
          /\ SysExit("seastate_getWaveFieldPointer")
    /\ UNCHANGED <<config, npoints, time, i, j, engine, results, chans, outFile,
                   ss_pointer, waveField>>
    /\ UNCHANGED others

\* seastate_getWaveFieldPointer writes the engine's reference into
\* config.ss_pointer.
GetWaveFieldPointer ==
    /\ pc = "get_pointer"
    /\ \/ /\ Logged(<<Call("seastate_getWaveFieldPointer", TRUE)>>)
          /\ ss_pointer' = waveField
          /\ pc' = "set_pointer"
          /\ UNCHANGED <<outcome, err, origin>>
       \/ /\ Logged(<<Call("seastate_getWaveFieldPointer", FALSE)>>)
          /\ ss_pointer' = ss_pointer
          /\ SysExit("seastate_getWaveFieldPointer")
    /\ UNCHANGED <<config, npoints, time, i, j, engine, results, chans, outFile,
                   waveField>>
    /\ UNCHANGED others

SetWaveFieldPointer ==
    /\ pc = "set_pointer"
    /\ \/ /\ Logged(<<Call("seastate_setWaveFieldPointer", TRUE)>>)
          /\ waveField' = ss_pointer
          /\ pc' = "step"
          /\ UNCHANGED <<outcome, err, origin>>
       \/ /\ Logged(<<Call("seastate_setWaveFieldPointer", FALSE)>>)
          /\ waveField' = waveField
          /\ SysExit("seastate_setWaveFieldPointer")
    /\ UNCHANGED <<config, npoints, time, i, j, engine, results, chans, outFile,
                   ss_pointer>>
    /\ UNCHANGED others

\* ------------------------------------------------------- the time loop

\* The row of step k stamped with the first timestamp.
ChannelRowStale(k) == [t |-> time[1], step |-> k]

\* The row stored for step i: all_output_channel_values[i,:] =
\* np.append(t, output_channel_values).
ChannelRow(k) == [t |-> time[k + 1], step |-> k]

\* seastate_calcOutput(t, output_channel_values) at t = time[i]; on success
\* the row of step i is stored.  A failing call ends the engine by itself and
\* the except clause re-raises.
SeaStateCalcOutput ==
    /\ pc = "step"
    /\ i < Len(time)
    /\ \/ /\ Logged(<<Call("seastate_calcOutput", TRUE)>>)
          /\ chans' = [chans EXCEPT ![i + 1] = ChannelRow(i)]
          /\ j' = 0
          /\ pc' = "point"
          /\ UNCHANGED <<err, origin, engine>>
       \/ /\ Logged(<<Call("seastate_calcOutput", FALSE), ImplicitEnd>>)
          /\ engine' = "Finalized"
          /\ RaiseInLoop("seastate_calcOutput")
          /\ UNCHANGED <<chans, j>>
    /\ UNCHANGED <<config, npoints, time, i, outcome, results, outFile,
                   ss_pointer, waveField>>
    /\ UNCHANGED others

\* The time loop is exhausted: on to the finally block, nothing pending.
LoopDone ==
    /\ pc = "step"
    /\ i = Len(time)
    /\ pc' = "finally"
    /\ UNCHANGED <<config, npoints, time, i, j, outcome, err, origin, engine,
                   log, results, chans, outFile, ss_pointer, waveField>>
    /\ UNCHANGED others

\* The points loop of step i is exhausted: next step.
PointsDone ==
    /\ pc = "point"
    /\ j = npoints
    /\ i' = i + 1
    /\ pc' = "step"
    /\ UNCHANGED <<config, npoints, time, j, outcome, err, origin, engine, log,
                   results, chans, outFile, ss_pointer, waveField>>
    /\ UNCHANGED others

\* One field query of point j at step i: on success on to the next
\* statement, on failure the except clause re-raises.
Query(at, op, next) ==
    /\ pc = at
    /\ \/ /\ Logged(<<Call(op, TRUE)>>)
          /\ pc' = next
          /\ UNCHANGED <<err, origin>>
       \/ /\ Logged(<<Call(op, FALSE)>>)
          /\ RaiseInLoop(op)
    /\ UNCHANGED <<config, npoints, time, i, j, outcome, engine, results, chans,
                   outFile, ss_pointer, waveField>>
    /\ UNCHANGED others

GetFluidVelAcc ==
    /\ j < npoints
    /\ Query("point", "get_fluidVelAcc", "surf_elev")

\* The elevation query replaced by a second normal query.
GetSurfElevWrongCall == Query("surf_elev", "get_surfNorm", "surf_norm")

GetSurfElev == Query("surf_elev", "get_surfElev", "surf_norm")

GetSurfNorm == Query("surf_norm", "get_surfNorm", "write")

\* results_output.write that returns without adding its row.
ResultsWriteNoRow ==
    /\ pc = "write"
    /\ Logged(<<Call("results_output.write", TRUE)>>)
    /\ j' = j + 1
    /\ pc' = "point"
    /\ UNCHANGED <<config, npoints, time, i, outcome, err, origin, engine,
                   results, chans, outFile, ss_pointer, waveField>>
    /\ UNCHANGED others

\* results_output.write(t, pos, vel, ...): one row for (step i, point j).
\* The call is not inside a try of its own; a failure propagates as it is.
ResultsWrite ==
    /\ pc = "write"
    /\ \/ /\ Logged(<<Call("results_output.write", TRUE)>>)
          /\ results' = [results EXCEPT !.rows = Append(@, <<i, j>>)]
          /\ j' = j + 1
          /\ pc' = "point"
          /\ UNCHANGED <<err, origin>>
       \/ /\ Logged(<<Call("results_output.write", FALSE)>>)
          /\ RaiseInLoop("results_output.write")
          /\ UNCHANGED <<results, j>>
    /\ UNCHANGED <<config, npoints, time, i, outcome, engine, chans, outFile,
                   ss_pointer, waveField>>
    /\ UNCHANGED others

\* ---------------------------------------------------- the finally block

\* results_output.end().  If it raises, its exception replaces the pending
\* one and the rest of the finally block is skipped.
ResultsEnd ==
    /\ pc = "finally"
    /\ \/ /\ Logged(<<Call("results_output.end", TRUE)>>)
          /\ results' = [results EXCEPT !.ends = @ + 1]
          /\ pc' = "finally_end"
          /\ UNCHANGED <<outcome, err, origin>>
       \/ /\ Logged(<<Call("results_output.end", FALSE)>>)
          /\ results' = results
          /\ err' = "results_output.end"
          /\ origin' = IF origin = NoOrigin
                         THEN [op |-> "results_output.end", step |-> i]
                         ELSE origin
          /\ outcome' = "raised"
          /\ pc' = "done"
    /\ UNCHANGED <<config, npoints, time, i, j, engine, chans, outFile,
                   ss_pointer, waveField>>
    /\ UNCHANGED others

\* self.sslib.seastate_end(), whatever the engine's state.  When it returns,
\* the pending exception (if any) leaves run_simulation; when it raises, its
\* exception does.
SeaStateEnd ==
    /\ pc = "finally_end"
    /\ \/ /\ Logged(<<Call("seastate_end", TRUE)>>)
          /\ engine' = "Finalized"
          /\ IF err = "none"
               THEN /\ pc' = "write_out"
                    /\ outcome' = outcome
               ELSE /\ pc' = "done"
                    /\ outcome' = "raised"
          /\ UNCHANGED <<err, origin>>
       \/ /\ Logged(<<Call("seastate_end", FALSE)>>)
          /\ engine' = engine
          /\ err' = "seastate_end"
          /\ origin' = IF origin = NoOrigin
                         THEN [op |-> "seastate_end", step |-> i]
                         ELSE origin
          /\ outcome' = "raised"
          /\ pc' = "done"
    /\ UNCHANGED <<config, npoints, time, i, j, results, chans, outFile,
                   ss_pointer, waveField>>
    /\ UNCHANGED others

\* After the try statement: the channel series is written in one call,
\* out_file.write(all_output_channel_values), and the file closed.
WriteOutChans ==
    /\ pc = "write_out"
    /\ outFile' = [writes |-> outFile.writes + 1, rows |-> chans,
                   ends |-> outFile.ends + 1]
    /\ outcome' = "returned"
    /\ pc' = "done"
    /\ UNCHANGED <<config, npoints, time, i, j, err, origin, engine, log,
                   results, chans, ss_pointer, waveField>>
    /\ UNCHANGED others

\* ------------------------------------------------------- specification

Next ==
    \/ Construct
    \/ LoadLibrary
    \/ ReadPoints
    \/ SeaStatePreInit
    \/ SeaStateInit
    \/ Setup
    \/ GetWaveFieldPointer
    \/ SetWaveFieldPointer
    \/ SeaStateCalcOutput
    \/ LoopDone
    \/ PointsDone
    \/ GetFluidVelAcc
    \/ GetSurfElev
    \/ GetSurfNorm
    \/ ResultsWrite
    \/ ResultsEnd
    \/ SeaStateEnd
    \/ WriteOutChans

Spec == Init /\ [][Next]_vars

\* ------------------------------------------- two drivers side by side

\* Steps of the time loop each driver of the pair makes.
PairSteps == 2

Drivers == {1, 2}

\* Each engine has a WaveField of its own.
EngineField(d) == IF d = 1 THEN "wavefield" ELSE "wavefield2"

\* No single SeaStateDriver run is in progress.
DriverIdle ==
    /\ config = DefaultConfig
    /\ npoints = 0
    /\ time = <<>>
    /\ pc = "idle"
    /\ i = 0
    /\ j = 0
    /\ outcome = "running"
    /\ err = "none"
    /\ origin = NoOrigin
    /\ engine = "Uninitialized"
    /\ log = <<>>
    /\ results = [opened |-> FALSE, rows |-> <<>>, ends |-> 0]
    /\ chans = <<>>
    /\ outFile = [writes |-> 0, rows |-> <<>>, ends |-> 0]
    /\ waveField = "wavefield"

\* Two drivers, each built from a SeaStateConfig of its own and holding an
\* engine of its own, each about to run run_simulation in a thread of its
\* own.  ss_pointer is assigned in the body of the SeaStateConfig class
\* without an annotation, so it is no dataclass field: it is one class
\* attribute, one c_void_p object, that every SeaStateConfig instance reads.
PairStart ==
    /\ drivers = [d \in Drivers |->
                    [pc |-> "preinit", field |-> EngineField(d),
                     got |-> "none", passed |-> "none", step |-> 0]]
    /\ ss_pointer = "null"
    /\ DriverIdle
    /\ TankIdle

\* Driver d moves to position to.
PairGoto(d, to) == drivers' = [drivers EXCEPT ![d].pc = to]

\* A call of driver d that touches no handle: it returns, or the except
\* clause ends the thread with sys.exit(1).
PairCall(d, at, next) ==
    /\ drivers[d].pc = at
    /\ \/ PairGoto(d, next)
       \/ PairGoto(d, "exited")
    /\ UNCHANGED <<ss_pointer, driverVars, tankVars>>

PairSeaStatePreInit(d) == PairCall(d, "preinit", "init")

PairSeaStateInit(d) == PairCall(d, "init", "get_pointer")

\* sslib.seastate_getWaveFieldPointer(self.config.ss_pointer): engine d
\* writes its WaveField reference into the one shared c_void_p.
PairGetWaveFieldPointer(d) ==
    /\ drivers[d].pc = "get_pointer"
    /\ \/ /\ ss_pointer' = drivers[d].field
          /\ drivers' = [drivers EXCEPT ![d].pc = "set_pointer",
                                        ![d].got = drivers[d].field]
       \/ /\ ss_pointer' = ss_pointer
          /\ PairGoto(d, "exited")
    /\ UNCHANGED <<driverVars, tankVars>>

\* sslib.seastate_setWaveFieldPointer(self.config.ss_pointer): engine d is
\* handed whatever the shared c_void_p holds at the time of the call.
PairSetWaveFieldPointer(d) ==
    /\ drivers[d].pc = "set_pointer"
    /\ \/ drivers' = [drivers EXCEPT ![d].pc = "stepping",
                                     ![d].passed = ss_pointer,
                                     ![d].field = ss_pointer]
       \/ drivers' = [drivers EXCEPT ![d].pc = "exited",
                                     ![d].passed = ss_pointer]
    /\ UNCHANGED <<ss_pointer, driverVars, tankVars>>

\* One step of driver d's time loop (seastate_calcOutput and the queries of
\* its points); a failure goes to the finally block.
PairStep(d) ==
    /\ drivers[d].pc = "stepping"
    /\ drivers[d].step < PairSteps
    /\ \/ drivers' = [drivers EXCEPT ![d].step = @ + 1]
       \/ PairGoto(d, "finally")
    /\ UNCHANGED <<ss_pointer, driverVars, tankVars>>

PairLoopDone(d) ==
    /\ drivers[d].pc = "stepping"
    /\ drivers[d].step = PairSteps
    /\ PairGoto(d, "finally")
    /\ UNCHANGED <<ss_pointer, driverVars, tankVars>>

\* The finally block of driver d and what follows it.
PairSeaStateEnd(d) ==
    /\ drivers[d].pc = "finally"
    /\ PairGoto(d, "done")
    /\ UNCHANGED <<ss_pointer, driverVars, tankVars>>

PairNext ==
    \E d \in Drivers :
        \/ PairSeaStatePreInit(d)
        \/ PairSeaStateInit(d)
        \/ PairGetWaveFieldPointer(d)
        \/ PairSetWaveFieldPointer(d)
        \/ PairStep(d)
        \/ PairLoopDone(d)
        \/ PairSeaStateEnd(d)

SpecPair == PairStart /\ [][PairNext]_vars

\* ------------------------------------------------ the wave-tank driver
\* (glue-codes/other/py_wavetank_test1/py_wavetank_driver.py).  Times are
\* integers, in ticks of 0.1 s.

\* dt = 0.1 s and tmax = 5 s, in ticks.
TankDt == 1
TankTmax == 50

\* Largest length of the motion series read from the TDMS file.
MaxMotionLen == 52

Min(a, b) == IF a <= b THEN a ELSE b

\* The number of steps without the cap by the length of the motion series.
NTimestepsNoMin(n_max) == PyIntQuotient(TankTmax, TankDt)

\* n_timesteps = min(int(tmax / dt), n_timesteps_max)
NTimesteps(n_max) == Min(PyIntQuotient(TankTmax, TankDt), n_max)

\* Entry k (0-based) of channel ch of the motion series: every channel and
\* index holds a value of its own.
Motion(ch, k) == <<ch, k>>

\* pos of step k.  The script binds y to the "y" channel and then binds y
\* again to the "psi" channel, before the vector is built.
Position(k) ==
    LET x == Motion("x", k)
        y_first == Motion("y", k)
        z == Motion("z", k)
        r == Motion("phi", k)
        p == Motion("theta", k)
        y == Motion("psi", k)
    IN  <<x, y, z, r, p, y>>

\* vel of step k: y_dot is bound to "y_dot", then to "psi_dot".
Velocity(k) ==
    LET x_dot == Motion("x_dot", k)
        y_dot_first == Motion("y_dot", k)
        z_dot == Motion("z_dot", k)
        r_dot == Motion("phi_dot", k)
        p_dot == Motion("theta_dot", k)
        y_dot == Motion("psi_dot", k)
    IN  <<x_dot, y_dot, z_dot, r_dot, p_dot, y_dot>>

\* acc of step k: y_ddot is bound to "y_ddot", then to "psi_ddot".
Acceleration(k) ==
    LET x_ddot == Motion("x_ddot", k)
        y_ddot_first == Motion("y_ddot", k)
        z_ddot == Motion("z_ddot", k)
        r_ddot == Motion("phi_ddot", k)
        p_ddot == Motion("theta_ddot", k)
        y_ddot == Motion("psi_ddot", k)
    IN  <<x_ddot, y_ddot, z_ddot, r_ddot, p_ddot, y_ddot>>

\* The script is started; the motion series in the TDMS file has any
\* length, all its channels the same.
TankStart ==
    /\ tank_pc = "read_motions"
    /\ motion_len \in 0..MaxMotionLen
    /\ n_timesteps = 0
    /\ tank_i = 0
    /\ debug_outputs = FALSE
    /\ tank_engine = "Unloaded"
    /\ tank_calls = <<>>
    /\ debug_file = [opened |-> FALSE, rows |-> <<>>, ends |-> 0]
    /\ tank_ends = 0
    /\ tank_outcome = "running"
    /\ PairIdle
    /\ ss_pointer = "null"
    /\ DriverIdle

\* An exception nothing catches: the script ends with a traceback.
TankRaise ==
    /\ tank_outcome' = "raised"
    /\ tank_pc' = "done"

\* TdmsToDict(TDMSfile)["Winch System"], len(floater_motions["x"]) and
\* n_timesteps; reading the file is not inside a try.
TankReadMotions ==
    /\ tank_pc = "read_motions"
    /\ \/ /\ n_timesteps' = NTimesteps(motion_len)
          /\ tank_pc' = "load_library"
          /\ UNCHANGED tank_outcome
       \/ /\ TankRaise
          /\ UNCHANGED n_timesteps
    /\ UNCHANGED <<motion_len, tank_i, debug_outputs, tank_engine, tank_calls,
                   debug_file, tank_ends>>
    /\ UNCHANGED <<drivers, ss_pointer, driverVars>>

\* wtt.WaveTankLib(...): a failure prints and calls sys.exit(1).
TankLoadLibrary ==
    /\ tank_pc = "load_library"
    /\ \/ /\ tank_engine' = "Loaded"
          /\ tank_pc' = "init"
          /\ UNCHANGED tank_outcome
       \/ /\ tank_outcome' = "sys_exit"
          /\ tank_pc' = "done"
          /\ UNCHANGED tank_engine
    /\ UNCHANGED <<motion_len, n_timesteps, tank_i, debug_outputs, tank_calls,
                   debug_file, tank_ends>>
    /\ UNCHANGED <<drivers, ss_pointer, driverVars>>

\* wtlib.init({...}), not inside a try; it sets wtlib.debug_outputs from the
\* configuration file.
TankInit ==
    /\ tank_pc = "init"
    /\ \/ /\ tank_engine' = "Initialized"
          /\ debug_outputs' \in BOOLEAN
          /\ tank_pc' = "open_debug"
          /\ UNCHANGED tank_outcome
       \/ /\ TankRaise
          /\ UNCHANGED <<tank_engine, debug_outputs>>
    /\ UNCHANGED <<motion_len, n_timesteps, tank_i, tank_calls, debug_file,
                   tank_ends>>
    /\ UNCHANGED <<drivers, ss_pointer, driverVars>>

\* if wtlib.debug_outputs: debug_output_file = wtt.DriverDbg(...)
TankOpenDebug ==
    /\ tank_pc = "open_debug"
    /\ debug_file' = IF debug_outputs
                       THEN [debug_file EXCEPT !.opened = TRUE]
                       ELSE debug_file
    /\ tank_pc' = "step"
    /\ UNCHANGED <<motion_len, n_timesteps, tank_i, debug_outputs, tank_engine,
                   tank_calls, tank_ends, tank_outcome>>
    /\ UNCHANGED <<drivers, ss_pointer, driverVars>>

\* The calc_step call of step tank_i: time = dt * i and the motion read at
\* index i of the series.
TankCall(ok) ==
    [i |-> tank_i, time |-> TankDt * tank_i, pos |-> Position(tank_i),
     vel |-> Velocity(tank_i), acc |-> Acceleration(tank_i), ok |-> ok]

\* One pass of the loop body up to wtlib.calc_step(time, body_motion,
\* body_loads); the call is not inside a try.
TankCalcStep ==
    /\ tank_pc = "step"
    /\ tank_i < n_timesteps
    /\ \/ /\ tank_calls' = Append(tank_calls, TankCall(TRUE))
          /\ tank_pc' = "debug_write"
          /\ UNCHANGED tank_outcome
       \/ /\ tank_calls' = Append(tank_calls, TankCall(FALSE))
          /\ TankRaise
    /\ UNCHANGED <<motion_len, n_timesteps, tank_i, debug_outputs, tank_engine,
                   debug_file, tank_ends>>
    /\ UNCHANGED <<drivers, ss_pointer, driverVars>>

\* if wtlib.debug_outputs: debug_output_file.write(time, ...); next i.
TankDebugWrite ==
    /\ tank_pc = "debug_write"
    /\ debug_file' = IF debug_outputs
                       THEN [debug_file EXCEPT !.rows = Append(@, tank_i)]
                       ELSE debug_file
    /\ tank_i' = tank_i + 1
    /\ tank_pc' = "step"
    /\ UNCHANGED <<motion_len, n_timesteps, debug_outputs, tank_engine,
                   tank_calls, tank_ends, tank_outcome>>
    /\ UNCHANGED <<drivers, ss_pointer, driverVars>>

\* After the loop: if wtlib.debug_outputs: debug_output_file.end()
TankDebugEnd ==
    /\ tank_pc = "step"
    /\ tank_i = n_timesteps
    /\ debug_file' = IF debug_outputs
                       THEN [debug_file EXCEPT !.ends = @ + 1]
                       ELSE debug_file
    /\ tank_pc' = "end"
    /\ UNCHANGED <<motion_len, n_timesteps, tank_i, debug_outputs, tank_engine,
                   tank_calls, tank_ends, tank_outcome>>
    /\ UNCHANGED <<drivers, ss_pointer, driverVars>>

\* wtlib.end(), not inside a try, and the end of the script.
TankEnd ==
    /\ tank_pc = "end"
    /\ tank_ends' = tank_ends + 1
    /\ \/ /\ tank_engine' = "Ended"
          /\ tank_outcome' = "returned"
       \/ /\ tank_outcome' = "raised"
          /\ UNCHANGED tank_engine
    /\ tank_pc' = "done"
    /\ UNCHANGED <<motion_len, n_timesteps, tank_i, debug_outputs, tank_calls,
                   debug_file>>
    /\ UNCHANGED <<drivers, ss_pointer, driverVars>>

TankNext ==
    \/ TankReadMotions
    \/ TankLoadLibrary
    \/ TankInit
    \/ TankOpenDebug
    \/ TankCalcStep
    \/ TankDebugWrite
    \/ TankDebugEnd
    \/ TankEnd

SpecTank == TankStart /\ [][TankNext]_vars

\* ----------------------------------------------- vocabulary of the claims

Terminated == outcome # "running"

\* Number of entries of the call log for operation op.
Count(op) == Cardinality({n \in 1..Len(log) : log[n].op = op})

ExplicitEnds == Count("seastate_end")
ImplicitEnds == Count("implicit_end")

InitSucceeded == \E n \in 1..Len(log) : log[n].op = "seastate_init" /\ log[n].ok

ValidConfig == config.dt > 0 /\ config.t_final >= config.t_start

\* self.time has been built.
Constructed == pc # "construct" /\ err # "ValueError"

StepOps == {"seastate_calcOutput"}
QueryOps == {"get_fluidVelAcc", "get_surfElev", "get_surfNorm"}
HandleOps == {"seastate_getWaveFieldPointer", "seastate_setWaveFieldPointer"}
SetupOps == {"SeaStateLib", "loadtxt", "seastate_preinit", "seastate_init"} \cup HandleOps
EngineOps == {"seastate_preinit", "seastate_init", "seastate_end"} \cup HandleOps
                \cup StepOps \cup QueryOps

\* ------------------------------------------------------------------- C1

\* C1: on every exit of run_simulation taken after seastate_init succeeded,
\* seastate_end has been called and, once the results sink has been opened,
\* results_output.end has been called.
C1_ReleasedOnEveryExit ==
    (Terminated /\ InitSucceeded) =>
        /\ ExplicitEnds >= 1
        /\ results.opened => Count("results_output.end") >= 1

\* ------------------------------------------------------------------- C2

\* C2: if seastate_calcOutput raises at step k, then at the end of the run
\* the channel-series file holds exactly k rows, those of steps 0..k-1.
C2_PartialChannelRows ==
    (Terminated /\ origin.op = "seastate_calcOutput") =>
        /\ Len(outFile.rows) = origin.step
        /\ \A k \in 1..Len(outFile.rows) : outFile.rows[k] = ChannelRow(k - 1)

\* ------------------------------------------------------------------- C3

\* C3: engine teardown, explicit (seastate_end) and implicit (the engine's
\* own on a failed init or calcOutput) together, is never invoked twice, and
\* is invoked exactly once by the end of every run whose init succeeded.
C3_TeardownExactlyOnce ==
    /\ ExplicitEnds + ImplicitEnds <= 1
    /\ (Terminated /\ InitSucceeded) => ExplicitEnds + ImplicitEnds = 1

\* ------------------------------------------------------------------- C4

\* C4: a seastate_end that follows an earlier teardown (the engine's own, on
\* a failed seastate_calcOutput) raises nothing, and the results sink is
\* closed exactly once.
C4_FinalizeIdempotent ==
    \A n \in 1..Len(log) :
        (/\ log[n].op = "seastate_end"
         /\ \E m \in 1..(n - 1) : log[m].op \in {"implicit_end", "seastate_end"})
        => (log[n].ok /\ results.ends = 1 /\ Count("results_output.end") = 1)

\* ------------------------------------------------------------------- C5

\* C5: for a valid configuration (dt > 0, t_final >= t_start) the time
\* sequence has floor((t_final - t_start) / dt) + 1 elements and its first
\* element is t_start.
C5_TimeLength ==
    (Constructed /\ ValidConfig) =>
        /\ Len(time) = ((config.t_final - config.t_start) \div config.dt) + 1
        /\ FracEq(time[1], Ticks(config.t_start))

\* A sequence of three or more steps whose span is no multiple of dt.
C5_Witness ==
    /\ Constructed
    /\ ValidConfig
    /\ Len(time) >= 3
    /\ (config.t_final - config.t_start) % config.dt # 0

\* ------------------------------------------------------------------- C6

\* C6: consecutive timestamps differ by exactly dt, the last one is at most
\* t_final, and the default configuration gives 14 steps ending at 47.875 s
\* (383 ticks).
C6_FixedSpacing ==
    (Constructed /\ ValidConfig) =>
        /\ \A k \in 1..(Len(time) - 1) :
              FracEq(FracSub(time[k + 1], time[k]), Ticks(config.dt))
        /\ FracLe(time[Len(time)], Ticks(config.t_final))
        /\ config = DefaultConfig =>
              (Len(time) = 14 /\ FracEq(time[14], Ticks(383)))

\* ------------------------------------------------------------------- C7

\* The call log's entries before n, last first, are the three successful
\* queries of the same (step, point) as entry n, in the order velocity and
\* acceleration, elevation, normal.
AfterThreeQueries(n) ==
    /\ n > 3
    /\ \A q \in 1..3 :
          /\ log[n - q].ok
          /\ log[n - q].step = log[n].step
          /\ log[n - q].point = log[n].point
    /\ log[n - 3].op = "get_fluidVelAcc"
    /\ log[n - 2].op = "get_surfElev"
    /\ log[n - 1].op = "get_surfNorm"

RowsWrittenAfterQueries ==
    \A n \in 1..Len(log) :
        log[n].op = "results_output.write" => AfterThreeQueries(n)

QueryOrStepFailed == Terminated /\ origin.op \in (StepOps \cup QueryOps)

\* C7 as stated: N * P rows on full completion, strictly fewer whenever
\* seastate_calcOutput or a field query fails, each row after its three
\* queries.
C7_RowsAsStated ==
    /\ outcome = "returned" => Len(results.rows) = Len(time) * npoints
    /\ QueryOrStepFailed => Len(results.rows) < Len(time) * npoints
    /\ RowsWrittenAfterQueries

\* C7 (amended): N * P rows on full completion; strictly fewer whenever
\* seastate_calcOutput or a field query fails and there is at least one
\* sample point; each row is written after the three successful queries of
\* its (step, point).
C7_Rows ==
    /\ outcome = "returned" => Len(results.rows) = Len(time) * npoints
    /\ (QueryOrStepFailed /\ npoints >= 1) => Len(results.rows) < Len(time) * npoints
    /\ RowsWrittenAfterQueries

\* The default scenario, completed: 14 steps, 3 points, 42 rows.
C7_Witness ==
    /\ outcome = "returned"
    /\ config = DefaultConfig
    /\ npoints = 3
    /\ Len(time) = 14
    /\ Len(results.rows) = 42

\* ------------------------------------------------------------------- C8

IsEngineOp(e) == e.op \in EngineOps

\* The calls the driver made on the engine, in order.
EngineCalls == SelectSeq(log, IsEngineOp)

\* The engine operations that may directly follow operation a ("start": no
\* call yet) in preinit, init, get handle, set handle, (step, queries)*, end.
MayFollow(a) ==
    CASE a = "start" -> {"seastate_preinit"}
      [] a = "seastate_preinit" -> {"seastate_init"}
      [] a = "seastate_init" -> {"seastate_getWaveFieldPointer"}
      [] a = "seastate_getWaveFieldPointer" -> {"seastate_setWaveFieldPointer"}
      [] a = "seastate_setWaveFieldPointer" -> {"seastate_calcOutput", "seastate_end"}
      [] a = "seastate_calcOutput" ->
            {"get_fluidVelAcc", "seastate_calcOutput", "seastate_end"}
      [] a = "get_fluidVelAcc" -> {"get_surfElev", "seastate_end"}
      [] a = "get_surfElev" -> {"get_surfNorm", "seastate_end"}
      [] a = "get_surfNorm" ->
            {"get_fluidVelAcc", "seastate_calcOutput", "seastate_end"}
      [] OTHER -> {}

InLifecycleOrder ==
    \A n \in 1..Len(EngineCalls) :
        EngineCalls[n].op \in
            MayFollow(IF n = 1 THEN "start" ELSE EngineCalls[n - 1].op)

\* C8: every step, query and handle call comes after a seastate_init that
\* returned and before any teardown of the engine (seastate_end or the
\* engine's own), and the engine calls are in the order preinit, init, get
\* handle, set handle, (step, queries)*, end.
C8_LifecycleOrder ==
    /\ \A n \in 1..Len(log) :
          log[n].op \in (StepOps \cup QueryOps \cup HandleOps) =>
              /\ \E m \in 1..(n - 1) : log[m].op = "seastate_init" /\ log[m].ok
              /\ \A m \in 1..(n - 1) :
                    log[m].op \notin {"seastate_end", "implicit_end"}
    /\ InLifecycleOrder

\* A run that stepped, queried, failed in seastate_calcOutput at a later
\* step and went through the cleanup's seastate_end.
C8_Witness ==
    /\ Terminated
    /\ origin.op = "seastate_calcOutput"
    /\ origin.step >= 1
    /\ npoints >= 1
    /\ ExplicitEnds = 1

\* ------------------------------------------------------------------ C10

\* C10: a failure of library loading, points-file reading, seastate_preinit,
\* seastate_init, seastate_getWaveFieldPointer or
\* seastate_setWaveFieldPointer reaches the caller as a raised error; the
\* harness never exits the process.
C10_RaisesNeverExits ==
    /\ outcome # "sys_exit"
    /\ (Terminated /\ origin.op \in SetupOps) => outcome = "raised"

\* ------------------------------------------------------------------ C11

\* C11: when a step or field query failed inside the time loop, the error
\* that leaves run_simulation is that error, not one raised by
\* results_output.end or seastate_end in the cleanup block.
C11_OriginalErrorPropagates ==
    (outcome = "raised" /\ origin.op \in (StepOps \cup QueryOps)) => err = origin.op

\* ------------------------------------------------------------------ C13

LastCall == log[Len(log)]

C14_FailureAborts ==
    /\ \A n \in 1..Len(log) :
          (log[n].op \in (StepOps \cup QueryOps) /\ ~log[n].ok) =>
              \A m \in (n + 1)..Len(log) : log[m].op \notin (StepOps \cup QueryOps)
    /\ \A n, m \in 1..Len(log) :
          (/\ log[n].op = "seastate_calcOutput"
           /\ log[m].op = "seastate_calcOutput"
           /\ log[n].step = log[m].step) => n = m

\* A query failed at a step that is not the last, after an earlier step
\* completed, and the run is over.
C14_Witness ==
    /\ Terminated
    /\ origin.op = "get_surfElev"
    /\ origin.step >= 1
    /\ origin.step + 1 < Len(time)

\* ------------------------------------------------------------------ C15

IsWriteOf(e, step, point) ==
    e.op = "results_output.write" /\ e.step = step /\ e.point = point

\* Entry n of the call log comes directly after the successful call prev
\* of the same (step, point).
DirectlyAfter(n, prev) ==
    /\ n > 1
    /\ log[n - 1].op = prev
    /\ log[n - 1].ok
    /\ log[n - 1].step = log[n].step
    /\ log[n - 1].point = log[n].point

\* C15: in each step seastate_calcOutput comes before the step's queries;
\* for each point the calls are get_fluidVelAcc, get_surfElev, get_surfNorm
\* and then results_output.write, once per (step, point); points are visited
\* in index order.
C15_QueryOrder ==
    /\ \A n \in 1..Len(log) :
          /\ log[n].op = "get_fluidVelAcc" =>
                /\ n > 1
                /\ log[n - 1].ok
                /\ log[n - 1].step = log[n].step
                /\ IF log[n].point = 0
                     THEN log[n - 1].op = "seastate_calcOutput"
                     ELSE IsWriteOf(log[n - 1], log[n].step, log[n].point - 1)
          /\ log[n].op = "get_surfElev" => DirectlyAfter(n, "get_fluidVelAcc")
          /\ log[n].op = "get_surfNorm" => DirectlyAfter(n, "get_surfElev")
          /\ log[n].op = "results_output.write" => DirectlyAfter(n, "get_surfNorm")
          /\ (log[n].op = "get_surfNorm" /\ log[n].ok /\ n < Len(log)) =>
                IsWriteOf(log[n + 1], log[n].step, log[n].point)
    /\ \A n, m \in 1..Len(log) :
          (/\ log[n].op = "results_output.write"
           /\ IsWriteOf(log[m], log[n].step, log[n].point)) => n = m
    /\ outcome = "returned" =>
          \A step \in 0..(Len(time) - 1), point \in 0..(npoints - 1) :
              \E n \in 1..Len(log) : IsWriteOf(log[n], step, point) /\ log[n].ok

\* A completed run of two or more steps over two or more points.
C15_Witness ==
    /\ outcome = "returned"
    /\ Len(time) >= 2
    /\ npoints >= 2

\* ------------------------------------------------------------------ C16

\* C16: a run that returns has written the channel-series file once, after
\* the engine was finalized, with len(time) rows; row k carries time[k] and
\* the channel values of step k, so timestamps strictly increase, and the
\* row count is the number of steps completed.  The file is never written
\* more than once.
C16_ChannelSeries ==
    /\ outFile.writes <= 1
    /\ outcome = "returned" =>
          /\ outFile.writes = 1
          /\ engine = "Finalized"
          /\ LastCall.op = "seastate_end"
          /\ LastCall.ok
          /\ Len(outFile.rows) = Len(time)
          /\ Len(outFile.rows) = i
          /\ \A k \in 1..Len(outFile.rows) :
                outFile.rows[k].t = time[k] /\ outFile.rows[k].step = k - 1
          /\ \A k \in 1..(Len(outFile.rows) - 1) :
                FracLt(outFile.rows[k].t, outFile.rows[k + 1].t)

\* The default scenario, completed: 14 rows.
C16_Witness ==
    /\ outcome = "returned"
    /\ config = DefaultConfig
    /\ Len(outFile.rows) = 14

\* ------------------------------------------------------------------ C12

\* C12: with two drivers interleaved, the handle a driver passes to
\* seastate_setWaveFieldPointer is the handle its own engine returned from
\* seastate_getWaveFieldPointer.
C12_HandleNotShared ==
    \A d \in Drivers :
        drivers[d].passed # "none" => drivers[d].passed = drivers[d].got

\* ------------------------------------------------------------------ C17

TankInitSucceeded == tank_engine \in {"Initialized", "Ended"}

\* C17: on every exit of the wave-tank script after wtlib.init succeeded,
\* wtlib.end() has been called and, with debug outputs enabled, the debug
\* file has been closed holding one row per completed step.
C17_TankReleased ==
    (tank_outcome # "running" /\ TankInitSucceeded) =>
        /\ tank_ends >= 1
        /\ debug_outputs =>
              /\ debug_file.ends >= 1
              /\ debug_file.rows = [k \in 1..tank_i |-> k - 1]

\* ------------------------------------------------------------------ C18

\* C18: with a motion series long enough, the wave-tank script calls
\* calc_step floor(tmax / dt) + 1 times, the first time at t = 0 and the
\* last time at t = tmax (tmax is a multiple of dt): 51 steps ending at 5.0 s.
C18_InclusiveSteps ==
    (tank_outcome = "returned" /\ motion_len >= (TankTmax \div TankDt) + 1) =>
        /\ Len(tank_calls) = (TankTmax \div TankDt) + 1
        /\ tank_calls[1].time = 0
        /\ tank_calls[Len(tank_calls)].time = TankTmax

\* ------------------------------------------------------------------ C19

\* The six channels of a vector, in order, with the given suffix.
OwnChannels(k, x, y, z, phi, theta, psi) ==
    <<Motion(x, k), Motion(y, k), Motion(z, k),
      Motion(phi, k), Motion(theta, k), Motion(psi, k)>>

\* C19: the motion passed to calc_step at step i is the motion source's
\* triple at index i, each of the 18 components from its own channel.
C19_MotionFromOwnChannels ==
    \A n \in 1..Len(tank_calls) :
        LET c == tank_calls[n] IN
        /\ c.i = n - 1
        /\ c.pos = OwnChannels(c.i, "x", "y", "z", "phi", "theta", "psi")
        /\ c.vel = OwnChannels(c.i, "x_dot", "y_dot", "z_dot",
                               "phi_dot", "theta_dot", "psi_dot")
        /\ c.acc = OwnChannels(c.i, "x_ddot", "y_ddot", "z_ddot",
                               "phi_ddot", "theta_ddot", "psi_ddot")

\* ------------------------------------------------------------------ C20

\* C20: every index used to read the motion series is at least 0 and less
\* than the length of the series, whatever that length, and the times passed
\* to calc_step start at 0 and strictly increase.
C20_IndexInRange ==
    /\ \A n \in 1..Len(tank_calls) :
          0 <= tank_calls[n].i /\ tank_calls[n].i < motion_len
    /\ Len(tank_calls) >= 1 => tank_calls[1].time = 0
    /\ \A n \in 1..(Len(tank_calls) - 1) :
          tank_calls[n].time < tank_calls[n + 1].time

\* A completed run over a motion series shorter than int(tmax / dt): one
\* step per entry of the series.
C20_Witness ==
    /\ tank_outcome = "returned"
    /\ motion_len = 3
    /\ motion_len < PyIntQuotient(TankTmax, TankDt)
    /\ Len(tank_calls) = motion_len

====
